---------------------------- MODULE Spec2Model ----------------------------
(***************************************************************************)
(* Model of the top-10 "doublers" scanner: analysis.py (history fetch with *)
(* fallback, indicators, horizon scoring, ranking, stop/target estimates)  *)
(* and firebase_utils.py (secret lookup).                                  *)
(*                                                                         *)
(* Numbers.  A Python float is a record [nan, v]: NaN, or an integer v in  *)
(* a fixed-point unit that depends on the quantity:                        *)
(*   prices and volumes  whole units (rupees, shares);                     *)
(*   returns, volatility micro-units, 10^-6;                               *)
(*   composite scores    quanta of 5 * 10^-10, so that the 1e-9 of         *)
(*                       analyze_universe is EPS = 2 quanta and two scores *)
(*                       can differ by less than it.                       *)
(* Divisions round down where Python would round to the nearest float.     *)
(***************************************************************************)
EXTENDS Integers, Sequences, FiniteSets, TLC

(***************************************************************************)
(* Floats                                                                  *)
(***************************************************************************)
NaN == [nan |-> TRUE, v |-> 0]

Fl(x) == [nan |-> FALSE, v |-> x]

IsNaN(a) == a.nan

Abs(x) == IF x < 0 THEN -x ELSE x

FAdd(a, b) == IF a.nan \/ b.nan THEN NaN ELSE Fl(a.v + b.v)

FSub(a, b) == IF a.nan \/ b.nan THEN NaN ELSE Fl(a.v - b.v)

FAbs(a) == IF a.nan THEN NaN ELSE Fl(Abs(a.v))

\* a * num / den
FScale(a, num, den) == IF a.nan THEN NaN ELSE Fl((a.v * num) \div den)

\* bisection: the root lies in lo..up, up < 2^15
RECURSIVE SqrtIn(_, _, _)
SqrtIn(n, lo, up) ==
    IF lo = up THEN lo
    ELSE LET mid == (lo + up + 1) \div 2
         IN  IF mid * mid > n THEN SqrtIn(n, lo, mid - 1) ELSE SqrtIn(n, mid, up)

\* floor of the square root
ISqrt(n) == SqrtIn(n, 0, 32767)

RECURSIVE SeqSum(_)
SeqSum(s) == IF s = <<>> THEN 0 ELSE Head(s) + SeqSum(Tail(s))

\* the non-NaN values of a sequence of floats, as integers (pandas skipna)
RECURSIVE Valid(_)
Valid(s) ==
    IF s = <<>> THEN <<>>
    ELSE IF Head(s).nan THEN Valid(Tail(s))
    ELSE <<Head(s).v>> \o Valid(Tail(s))

\* Series.mean(): NaN when no value is defined
Mean(s) ==
    LET xs == Valid(s)
    IN  IF xs = <<>> THEN NaN ELSE Fl(SeqSum(xs) \div Len(xs))

\* Series.std(), ddof = 1: NaN with fewer than two defined values
Std(s) ==
    LET xs == Valid(s)
        n  == Len(xs)
        m  == SeqSum(xs) \div n
        sq == [i \in 1..n |-> (xs[i] - m) * (xs[i] - m)]
    IN  IF n < 2 THEN NaN ELSE Fl(ISqrt(SeqSum(sq) \div (n - 1)))

(***************************************************************************)
(* Constants and tuning, analysis.py lines 12-16                           *)
(***************************************************************************)
YEARS_HISTORY == 8

HORIZONS_MONTHS == <<6, 12, 18, 24, 48>>

MIN_AVG_VOLUME == 30000

\* VOL_PENALTY = 0.5 = 1 / VOL_PENALTY_DEN
VOL_PENALTY_DEN == 2

\* the 1e-9 of analyze_universe, in score quanta
EPS == 2

\* one micro-unit (10^-6) in score quanta
QuantaPerMicro == 1000 * EPS

\* 1.0 in micro-units
One == 1000 * 1000

\* math.sqrt(252) in thousandths
SQRT252_MILLI == 15875

\* math.log1p(avg_vol) * LOGVOL_WEIGHT (0.005), in score quanta, tabulated on
\* the volume levels of the series below: 10^7 * ln(1 + v), rounded
LogVolTerm(avg_vol) ==
    CASE avg_vol = 40000    -> 105966597
      [] avg_vol = 10000000 -> 161180958


(***************************************************************************)
(* Frames.  A PriceSeries is a sequence of bars [date, open, high, low,    *)
(* close, volume]; date is a day number, the other fields are floats.  A   *)
(* function that returns a DataFrame or None returns Df(rows) or None, and *)
(* Raise when an exception leaves it.                                      *)
(***************************************************************************)
None == [kind |-> "None", rows |-> <<>>]

Df(rows) == [kind |-> "df", rows |-> rows]

Raise == [kind |-> "raise", rows |-> <<>>]

Max(a, b) == IF a > b THEN a ELSE b

\* the elements lo..up of a sequence
Slice(s, lo, up) == [i \in 1..(up - lo + 1) |-> s[lo + i - 1]]

Column(rows, c) == [i \in 1..Len(rows) |-> rows[i][c]]

\* close[t] / close[t-1] - 1, in micro-units
PctChange(now, prev) ==
    IF now.nan \/ prev.nan THEN NaN ELSE Fl((now.v * One) \div prev.v - One)

\* analysis.py compute_indicators: ret_1d, tr, atr (rolling 14, min_periods 1)
\* and volatility_annual (rolling 21 std, annualised)
indicators(rows) ==
    LET ret == [t \in 1..Len(rows) |->
                   IF t = 1 THEN NaN
                   ELSE PctChange(rows[t].close, rows[t - 1].close)]
        tr  == [t \in 1..Len(rows) |-> FAbs(FSub(rows[t].high, rows[t].low))]
    IN  [t \in 1..Len(rows) |->
            rows[t] @@
            [ret_1d |-> ret[t],
             tr     |-> tr[t],
             atr    |-> Mean(Slice(tr, Max(1, t - 13), t)),
             volatility_annual |->
                 FScale(Std(Slice(ret, Max(1, t - 20), t)), SQRT252_MILLI, 1000)]]

\* the least number of bars a horizon's window needs, score_for_horizon
MIN_BARS == 10

RECURSIVE MaxDate(_)
MaxDate(rows) ==
    IF Len(rows) = 1 THEN rows[1].date
    ELSE Max(rows[1].date, MaxDate(Tail(rows)))

Recent(rows, cutoff) ==
    LET keep(b) == b.date >= cutoff
    IN  SelectSeq(rows, keep)

\* analysis.py score_for_horizon.  The result is <<>> for None and <<dict>>
\* for a score; df is an indicator frame (Df or None).
score_for_horizon(df, months) ==
    IF df = None \/ df.rows = <<>> THEN <<>>
    ELSE
      LET end      == MaxDate(df.rows)
          cutoff   == end - months * 30
          recent   == Recent(df.rows, cutoff)
          first    == recent[1].close
          last     == recent[Len(recent)].close
          total_return ==
              IF first.nan \/ last.nan THEN NaN
              ELSE Fl((last.v * One) \div first.v - One)
          vol      == FScale(Std(Column(recent, "ret_1d")), SQRT252_MILLI, 1000)
          avg_vol  == Mean(Column(recent, "volume"))
          score    ==
              FAdd(FSub(FScale(total_return, QuantaPerMicro, 1),
                        FScale(vol, QuantaPerMicro, VOL_PENALTY_DEN)),
                   IF avg_vol.nan THEN NaN ELSE Fl(LogVolTerm(avg_vol.v)))
      IN  IF recent = <<>> \/ Len(recent) < MIN_BARS THEN <<>>
          ELSE IF avg_vol.nan \/ avg_vol.v < MIN_AVG_VOLUME THEN <<>>
          ELSE <<[return |-> total_return, volatility |-> vol,
                  avg_vol |-> avg_vol, score |-> score]>>

(***************************************************************************)
(* The price series the providers can return.  Series(n, gap, c0, step,    *)
(* vol, close, range) has n bars, gap days apart; the close starts at c0   *)
(* and grows by step a bar; high and low are close +- 2.  close = "nan"    *)
(* leaves every close undefined (a response with no close column),         *)
(* range = "nan" leaves high and low undefined; vol < 0 leaves the volume  *)
(* undefined.                                                              *)
(***************************************************************************)
Series(n, gap, c0, step, vol, close, range) ==
    [t \in 1..n |->
        LET c == c0 + step * (t - 1)
        IN  [date   |-> gap * (t - 1),
             open   |-> Fl(c),
             high   |-> IF range = "nan" THEN NaN ELSE Fl(c + 2),
             low    |-> IF range = "nan" THEN NaN ELSE Fl(c - 2),
             close  |-> IF close = "nan" THEN NaN ELSE Fl(c),
             volume |-> IF vol < 0 THEN NaN ELSE Fl(vol)]]

SeriesNames ==
    {"steady", "liquid", "thin", "short", "novol", "noclose", "norange"}

SeriesTable ==
    [name \in SeriesNames |->
        CASE name = "steady"  -> Series(25, 60, 100, 1, 40000, "ok", "ok")
          [] name = "liquid"  -> Series(12, 1, 100, 0, 10000000, "ok", "ok")
          [] name = "thin"    -> Series(12, 1, 100, 0, 20000, "ok", "ok")
          [] name = "short"   -> Series(5, 1, 100, 0, 10000000, "ok", "ok")
          [] name = "novol"   -> Series(12, 1, 100, 0, -1, "ok", "ok")
          [] name = "noclose" -> Series(12, 1, 100, 0, 10000000, "nan", "ok")
          [] name = "norange" -> Series(12, 1, 100, 0, 10000000, "ok", "nan")]
    @@ <<>>

SeriesOf(name) == SeriesTable[name]

\* every frame a provider can return
Frames == {SeriesTable[name] : name \in SeriesNames}

\* compute_indicators, tabulated on the frames (@@ makes the table an
\* explicit function, computed once)
IndicatorTable == [rows \in Frames |-> indicators(rows)] @@ <<>>

compute_indicators(rows) == IndicatorTable[rows]

(***************************************************************************)
(* HistorySource: safe_get_json, fetch_dhan_candles, fetch_yfinance,       *)
(* get_history                                                             *)
(***************************************************************************)
\* the default retries of safe_get_json
RETRIES == 2

\* What the primary endpoint can answer to one request: "fail" (the request
\* or raise_for_status or the JSON decoding raises) or a JSON document.
PayloadNames ==
    {"falsy", "unknown", "emptycandles", "baddates", "candles", "list", "data"}

Responses == {"fail"} \cup PayloadNames

RECURSIVE Reverse(_)
Reverse(s) == IF s = <<>> THEN <<>> ELSE Reverse(Tail(s)) \o <<Head(s)>>

\* The JSON documents: truthy or not, the shape the rows come in, the rows
\* with the columns the heuristic mapping finds (a column it does not find
\* is NaN), and whether pd.to_datetime accepts the dates.
Payload(name) ==
    CASE name = "falsy" ->
           [truthy |-> FALSE, shape |-> "dict", rows |-> <<>>, dates |-> "ok"]
      [] name = "unknown" ->
           [truthy |-> TRUE, shape |-> "other", rows |-> <<>>, dates |-> "ok"]
      [] name = "emptycandles" ->
           [truthy |-> TRUE, shape |-> "candles", rows |-> <<>>, dates |-> "ok"]
      [] name = "baddates" ->
           [truthy |-> TRUE, shape |-> "list", rows |-> SeriesOf("liquid"),
            dates |-> "bad"]
      [] name = "candles" ->
           [truthy |-> TRUE, shape |-> "candles",
            rows |-> Reverse(SeriesOf("liquid")), dates |-> "ok"]
      [] name = "list" ->
           [truthy |-> TRUE, shape |-> "list", rows |-> SeriesOf("steady"),
            dates |-> "ok"]
      [] name = "data" ->
           [truthy |-> TRUE, shape |-> "data", rows |-> SeriesOf("noclose"),
            dates |-> "ok"]

\* a loop that gives up one attempt late: its last failure is not raised
AttemptNeverRaises(i, r) ==
    IF r # "fail" THEN [next |-> "return", j |-> r]
    ELSE IF i = RETRIES THEN [next |-> "raise", j |-> "fail"]
    ELSE [next |-> "sleep", j |-> "fail"]

\* safe_get_json, one pass of the loop body for attempt i (from 0) that gets
\* response r: return the JSON, raise, or sleep and go round again
Attempt(i, r) ==
    IF r # "fail" THEN [next |-> "return", j |-> r]
    ELSE IF i = RETRIES - 1 THEN [next |-> "raise", j |-> "fail"]
    ELSE [next |-> "sleep", j |-> "fail"]

\* safe_get_json on the responses script[1], script[2], ... of its attempts;
\* a loop that ends without returning or raising returns None (falsy)
RECURSIVE SafeGetFrom(_, _)
SafeGetFrom(script, i) ==
    IF i >= RETRIES THEN [next |-> "return", j |-> "falsy"]
    ELSE LET a == Attempt(i, script[i + 1])
         IN  IF a.next = "sleep" THEN SafeGetFrom(script, i + 1) ELSE a

safe_get_json(script) == SafeGetFrom(script, 0)

\* df.set_index("date").sort_index(): insertion of a bar by date
RECURSIVE InsertByDate(_, _)
InsertByDate(sorted, b) ==
    IF sorted = <<>> THEN <<b>>
    ELSE IF b.date < Head(sorted).date THEN <<b>> \o sorted
    ELSE <<Head(sorted)>> \o InsertByDate(Tail(sorted), b)

RECURSIVE SortByDate(_)
SortByDate(rows) ==
    IF rows = <<>> THEN <<>>
    ELSE InsertByDate(SortByDate(Tail(rows)), Head(rows))

\* fetch_dhan_candles, given what safe_get_json did
fetch_dhan_candles(got) ==
    IF got.next = "raise" THEN Raise
    ELSE
      LET j   == Payload(got.j)
          arr == IF j.shape \in {"candles", "list", "data"} THEN j.rows ELSE <<>>
      IN  IF ~j.truthy THEN None
          ELSE IF Len(arr) = 0 THEN None
          ELSE IF j.dates = "bad" THEN Raise
          ELSE Df(SortByDate(arr))

\* What the fallback provider can answer: an exception, no rows, or a series.
YfResponses == {"error", "empty"} \cup SeriesNames

fetch_yfinance(resp) ==
    IF resp = "error" THEN Raise
    ELSE IF resp = "empty" THEN None
    ELSE Df(SeriesOf(resp))

\* A token is a string or NoToken (None); both None and "" are falsy.
NoToken == "None"

Truthy(token) == token \notin {NoToken, ""}

\* get_history, lines 93-101, given the primary's result (consulted only with
\* a token) and the fallback's answer
\* a test that takes whatever the primary returned, None too
AnyReturn(df) == df.kind # "raise"

\* line 96: df is not None and not df.empty
NotEmpty(df) == df.kind = "df" /\ df.rows # <<>>

get_history_from(token, primary, yresp) ==
    IF Truthy(token) /\ NotEmpty(primary)
    THEN primary
    ELSE fetch_yfinance(yresp)

get_history(token, script, yresp) ==
    get_history_from(token, fetch_dhan_candles(safe_get_json(script)), yresp)

Scripts == [1..RETRIES -> Responses]

Tokens == {NoToken, "", "tok"}

\* everything get_history can do with a token, over all the answers of the
\* two providers
HistoryOutcomes ==
    [t \in Tokens |->
        {get_history(t, script, yresp) : script \in Scripts, yresp \in YfResponses}]
    @@ <<>>

(***************************************************************************)
(* firebase_utils.py: init_firebase and get_secret                         *)
(***************************************************************************)
\* the service-account file: not there, empty, not JSON, JSON that
\* credentials.Certificate or initialize_app rejects, or good
SaFiles == {"missing", "empty", "badjson", "badcert", "ok"}

\* the environment variable: unset, set to "", or set to a token
EnvValues == {NoToken, "", "tok"}

\* the store: the read raises, config/keys does not exist, it has no such
\* field, the field holds "", the field holds a token
Stores == {"error", "nodoc", "nofield", "blank", "value"}

\* init_firebase: TRUE when it returns an app, FALSE when it raises; apps is
\* firebase_admin._apps being non-empty
init_firebase(apps, sa) == apps \/ sa = "ok"

\* a lookup that reads the environment only after the store
get_secret_store_first(env_val, apps, sa, store) ==
    IF ~init_firebase(apps, sa)
    THEN [kind |-> "raise", val |-> "init", apps |-> apps, read |-> FALSE]
    ELSE IF store = "error"
    THEN [kind |-> "raise", val |-> "read", apps |-> TRUE, read |-> TRUE]
    ELSE IF store = "value"
    THEN [kind |-> "return", val |-> "tok", apps |-> TRUE, read |-> TRUE]
    ELSE [kind |-> "return", val |-> env_val, apps |-> TRUE, read |-> TRUE]

\* get_secret: the value returned (NoToken for None) or a raise, whether the
\* SDK is initialised afterwards and whether the store was read
get_secret(env_val, apps, sa, store) ==
    IF Truthy(env_val)
    THEN [kind |-> "return", val |-> env_val, apps |-> apps, read |-> FALSE]
    ELSE IF ~init_firebase(apps, sa)
    THEN [kind |-> "raise", val |-> "init", apps |-> apps, read |-> FALSE]
    ELSE IF store = "error"
    THEN [kind |-> "raise", val |-> "read", apps |-> TRUE, read |-> TRUE]
    ELSE [kind |-> "return",
          val  |-> CASE store = "value" -> "tok"
                     [] store = "blank" -> ""
                     [] OTHER           -> NoToken,
          apps |-> TRUE, read |-> TRUE]

(***************************************************************************)
(* UniverseRanker: the post-processing of one horizon's pool,              *)
(* analyze_universe lines 183-189.  A probability estimate is NaN or the   *)
(* fraction num / den.                                                     *)
(***************************************************************************)
PNaN == [nan |-> TRUE, num |-> 0, den |-> 1]

Frac(n, d) == [nan |-> FALSE, num |-> n, den |-> d]

\* a < b for two defined fractions with positive denominators
FracLess(a, b) ==
    IF a.den = b.den THEN a.num < b.num ELSE a.num * b.den < b.num * a.den

RECURSIVE SeqMin(_)
SeqMin(xs) ==
    IF Len(xs) = 1 THEN xs[1]
    ELSE LET m == SeqMin(Tail(xs)) IN IF xs[1] < m THEN xs[1] ELSE m

RECURSIVE SeqMax(_)
SeqMax(xs) ==
    IF Len(xs) = 1 THEN xs[1]
    ELSE LET m == SeqMax(Tail(xs)) IN IF xs[1] > m THEN xs[1] ELSE m

\* dfh["score"].min() and .max() skip NaN and are NaN when nothing is left
ScoreMin(rows) ==
    LET xs == Valid(Column(rows, "score"))
    IN  IF xs = <<>> THEN NaN ELSE Fl(SeqMin(xs))

ScoreMax(rows) ==
    LET xs == Valid(Column(rows, "score"))
    IN  IF xs = <<>> THEN NaN ELSE Fl(SeqMax(xs))

\* a normalisation by the spread plus one quantum
prob_est_wide(rows) ==
    LET mn == ScoreMin(rows)
        mx == ScoreMax(rows)
    IN  [i \in 1..Len(rows) |->
            IF rows[i].score.nan \/ mn.nan \/ mx.nan THEN PNaN
            ELSE Frac(rows[i].score.v - mn.v, mx.v - mn.v + 1)]

\* lines 184-188: the prob_est column; a comparison with NaN is false
prob_est(rows) ==
    LET mn == ScoreMin(rows)
        mx == ScoreMax(rows)
    IN  IF ~mn.nan /\ ~mx.nan /\ Abs(mx.v - mn.v) < EPS
        THEN [i \in 1..Len(rows) |-> Frac(1, 2)]
        ELSE [i \in 1..Len(rows) |->
                 IF rows[i].score.nan \/ mn.nan \/ mx.nan THEN PNaN
                 ELSE Frac(rows[i].score.v - mn.v, mx.v - mn.v)]

\* whether lines 184-188 divide by mx - mn
Divides(rows) ==
    LET mn == ScoreMin(rows)
        mx == ScoreMax(rows)
    IN  ~(~mn.nan /\ ~mx.nan /\ Abs(mx.v - mn.v) < EPS)

normalize(rows) ==
    LET p == prob_est(rows)
    IN  [i \in 1..Len(rows) |-> rows[i] @@ [prob_est |-> p[i]]]

\* head(10)
TOP_N == 10

\* sort_values("prob_est", ascending=False): rows with a NaN estimate go
\* last, in their order; the others go by descending estimate.  The default
\* kind, quicksort, is not stable: the order of rows with equal estimates
\* depends on the numpy build.  Here they come out in pool order rotated by
\* r places (r = 0: pool order).
sort_values(frame, r) ==
    LET n == Len(frame)
        key(i) == (i - 1 + r) % n
        before(i, j) ==
            IF frame[i].prob_est.nan THEN frame[j].prob_est.nan /\ i < j
            ELSE \/ frame[j].prob_est.nan
                 \/ FracLess(frame[j].prob_est, frame[i].prob_est)
                 \/ /\ ~FracLess(frame[i].prob_est, frame[j].prob_est)
                    /\ key(i) < key(j)
        place(i) == 1 + Cardinality({j \in 1..n : before(j, i)})
    IN  [p \in 1..n |-> frame[CHOOSE i \in 1..n : place(i) = p]]

head(frame, n) == IF Len(frame) <= n THEN frame ELSE SubSeq(frame, 1, n)

\* Optional floats: <<>> for None, <<x>> for the float x.
\* compute_target, lines 157-163, on what get_history returned
compute_target(sub) ==
    IF sub = None \/ sub.rows = <<>> THEN <<>>
    ELSE LET ind  == compute_indicators(sub.rows)
             last == ind[Len(ind)]
         IN  IF last.close.nan THEN <<>>
             ELSE <<FScale(last.close, 3, 1)>>

\* compute_stop, lines 167-174
compute_stop(sub) ==
    IF sub = None \/ sub.rows = <<>> THEN <<>>
    ELSE LET ind  == compute_indicators(sub.rows)
             last == ind[Len(ind)]
         IN  IF last.atr.nan THEN <<>>
             ELSE <<FSub(last.close, FScale(last.atr, 3, 2))>>

\* Series.apply: a column of floats holds None as the missing value NaN
Cell(x) == IF x = <<>> THEN NaN ELSE x[1]

\* the local `last` of compute_stop and compute_target: the latest close
\* and ATR of the re-fetched series, NoLast when there is no series
NoLast == [some |-> FALSE, close |-> NaN, atr |-> NaN]

LastOf(sub) ==
    IF sub = None \/ sub.rows = <<>> THEN NoLast
    ELSE LET ind == compute_indicators(sub.rows)
         IN  [some |-> TRUE, close |-> ind[Len(ind)].close, atr |-> ind[Len(ind)].atr]

(***************************************************************************)
(* State                                                                   *)
(***************************************************************************)
VARIABLES
    pc,            \* where analyze_universe is
    err,           \* the exception that left analyze_universe: "setup", "provider"
    firebase_apps, \* firebase_admin._apps is non-empty
    symbols,       \* the universe; symbols are numbered in scan order
    min_avg_vol,   \* the min_avg_vol argument
    dhan_token,
    idx,           \* the symbol the scan is at
    scan_df,       \* the df of the scan's iteration, until it is scored
    results,       \* the pool of each horizon
    hi,            \* the horizon the post-processing is at
    dfh,           \* the frame of that horizon
    col,           \* the column Series.apply is building
    last_row,      \* `last` of the latest compute_stop or compute_target
    top_lists,     \* the finished frames, their symbol column
    counts,        \* the summary counts returned
    secret,        \* the last get_secret call: its inputs and what it did
    call           \* one get_history call, request by request

vars ==
    <<pc, err, firebase_apps, symbols, min_avg_vol, dhan_token, idx, scan_df,
      results, hi, dfh, col, last_row, top_lists, counts, secret, call>>

\* the largest universe
MaxSymbols == 2

NH == Len(HORIZONS_MONTHS)

HorizonSet == {HORIZONS_MONTHS[i] : i \in 1..NH}

\* the thresholds a caller asks for: the default and a stricter one
MinAvgVolChoices == {MIN_AVG_VOLUME, 50000}

NoSecret ==
    [field |-> "", env |-> NoToken, sa |-> "ok", store |-> "nodoc",
     was_init |-> FALSE, kind |-> "none", val |-> NoToken, read |-> FALSE]

NoCall ==
    [pc |-> "idle", token |-> NoToken, i |-> 0, log |-> <<>>, sleeps |-> 0,
     got |-> "none", j |-> "fail", primary |-> "skipped", primary_df |-> None,
     fallback |-> "notcalled", yresp |-> "none", result |-> None]

(***************************************************************************)
(* analyze_universe                                                        *)
(***************************************************************************)
Init ==
    /\ pc = "start" /\ err = "" /\ firebase_apps = FALSE
    /\ symbols \in {[i \in 1..n |-> i] : n \in 0..MaxSymbols}
    /\ min_avg_vol \in MinAvgVolChoices
    /\ dhan_token = NoToken /\ idx = 1 /\ scan_df = None
    /\ results = [h \in HorizonSet |-> <<>>] /\ hi = 1
    /\ dfh = <<>> /\ col = <<>> /\ last_row = NoLast
    /\ top_lists = [h \in HorizonSet |-> <<>>]
    /\ counts = [h \in HorizonSet |-> 0]
    /\ secret = NoSecret /\ call = NoCall

\* lines 133-137: the token, then the empty pools
Start ==
    /\ pc = "start"
    /\ \E use_dhan \in BOOLEAN, env \in EnvValues, sa \in SaFiles, store \in Stores :
         LET got == get_secret(env, firebase_apps, sa, store)
         IN  IF ~use_dhan
             THEN /\ pc' = IF symbols = <<>> THEN "norm" ELSE "scan_fetch"
                  /\ UNCHANGED <<err, firebase_apps, dhan_token>>
             ELSE IF got.kind = "raise"
             THEN /\ pc' = "raised" /\ err' = "setup" /\ firebase_apps' = got.apps
                  /\ UNCHANGED dhan_token
             ELSE /\ pc' = IF symbols = <<>> THEN "norm" ELSE "scan_fetch"
                  /\ dhan_token' = got.val /\ firebase_apps' = got.apps
                  /\ UNCHANGED err
    /\ UNCHANGED <<symbols, min_avg_vol, idx, scan_df, results, hi, dfh, col,
                   last_row, top_lists, counts, secret, call>>

AfterSymbol(i) == IF i >= Len(symbols) THEN "norm" ELSE "scan_fetch"

\* lines 140-141 and 150-152: the fetch of the main scan; an exception skips
\* the symbol
ScanFetch ==
    /\ pc = "scan_fetch"
    /\ \E df \in HistoryOutcomes[dhan_token] :
         IF df.kind = "raise"
         THEN /\ idx' = idx + 1 /\ pc' = AfterSymbol(idx) /\ UNCHANGED scan_df
         ELSE /\ scan_df' = df /\ pc' = "scan_score" /\ UNCHANGED idx
    /\ UNCHANGED <<err, firebase_apps, symbols, min_avg_vol, dhan_token,
                   results, hi, dfh, col, last_row, top_lists, counts, secret,
                   call>>

\* lines 146-149 for one horizon: the pool with the symbol's score, if any
Scored(pool, ind, sym, h) ==
    LET sc == score_for_horizon(ind, h)
    IN  IF sc # <<>>
        THEN Append(pool, sc[1] @@ [symbol |-> sym, horizon |-> h])
        ELSE pool

\* lines 142-149
ScanScore ==
    /\ pc = "scan_score"
    /\ results' =
         IF scan_df = None THEN results
         ELSE LET ind == Df(compute_indicators(scan_df.rows))
              IN  [h \in HorizonSet |-> Scored(results[h], ind, symbols[idx], h)]
    /\ idx' = idx + 1 /\ scan_df' = None /\ pc' = AfterSymbol(idx)
    /\ UNCHANGED <<err, firebase_apps, symbols, min_avg_vol, dhan_token, hi,
                   dfh, col, last_row, top_lists, counts, secret, call>>

AfterHorizon(i) == IF i >= NH THEN "save" ELSE "norm"

\* lines 179-188: an empty pool gives an empty frame, another the pool with
\* its prob_est column
Normalize ==
    /\ pc = "norm"
    /\ LET h == HORIZONS_MONTHS[hi]
       IN  IF results[h] = <<>>
           THEN /\ top_lists' = [top_lists EXCEPT ![h] = <<>>]
                /\ hi' = hi + 1 /\ pc' = AfterHorizon(hi) /\ UNCHANGED dfh
           ELSE /\ dfh' = normalize(results[h]) /\ pc' = "sort"
                /\ UNCHANGED <<top_lists, hi>>
    /\ UNCHANGED <<err, firebase_apps, symbols, min_avg_vol, dhan_token, idx,
                   scan_df, results, col, last_row, counts, secret, call>>

\* line 189
SortHead ==
    /\ pc = "sort"
    /\ \E r \in 0..(Len(dfh) - 1) : dfh' = head(sort_values(dfh, r), TOP_N)
    /\ pc' = "stop"
    /\ UNCHANGED <<err, firebase_apps, symbols, min_avg_vol, dhan_token, idx,
                   scan_df, results, hi, col, last_row, top_lists, counts,
                   secret, call>>

WithColumn(frame, name, cells) ==
    [i \in 1..Len(frame) |-> frame[i] @@ (name :> cells[i])]

\* compute_stop for the row the apply of line 191 is at, and line 191 once
\* the last row is done; nothing catches an exception of get_history here
StopRow ==
    /\ pc = "stop"
    /\ \E df \in HistoryOutcomes[dhan_token] :
         IF df.kind = "raise"
         THEN /\ pc' = "raised" /\ err' = "provider"
              /\ UNCHANGED <<dfh, col, last_row>>
         ELSE LET cells == Append(col, Cell(compute_stop(df)))
              IN  /\ last_row' = LastOf(df) /\ UNCHANGED err
                  /\ IF Len(cells) = Len(dfh)
                     THEN /\ dfh' = WithColumn(dfh, "stop_loss_est", cells)
                          /\ col' = <<>> /\ pc' = "target"
                     ELSE /\ col' = cells /\ UNCHANGED <<dfh, pc>>
    /\ UNCHANGED <<firebase_apps, symbols, min_avg_vol, dhan_token, idx,
                   scan_df, results, hi, top_lists, counts, secret, call>>

\* compute_target for the row the apply of line 192 is at, and line 192
TargetRow ==
    /\ pc = "target"
    /\ \E df \in HistoryOutcomes[dhan_token] :
         IF df.kind = "raise"
         THEN /\ pc' = "raised" /\ err' = "provider"
              /\ UNCHANGED <<dfh, col, last_row>>
         ELSE LET cells == Append(col, Cell(compute_target(df)))
              IN  /\ last_row' = LastOf(df) /\ UNCHANGED err
                  /\ IF Len(cells) = Len(dfh)
                     THEN /\ dfh' = WithColumn(dfh, "target_price_est", cells)
                          /\ col' = <<>> /\ pc' = "reason"
                     ELSE /\ col' = cells /\ UNCHANGED <<dfh, pc>>
    /\ UNCHANGED <<firebase_apps, symbols, min_avg_vol, dhan_token, idx,
                   scan_df, results, hi, top_lists, counts, secret, call>>

\* lines 193-198: the rationale column and the frame's place in top_lists.
\* Nothing reads the other columns of a finished frame again but the
\* workbook writer, so top_lists keeps the symbol column.
Report ==
    /\ pc = "reason"
    /\ top_lists' = [top_lists EXCEPT ![HORIZONS_MONTHS[hi]] = Column(dfh, "symbol")]
    /\ dfh' = <<>> /\ last_row' = NoLast /\ hi' = hi + 1 /\ pc' = AfterHorizon(hi)
    /\ UNCHANGED <<err, firebase_apps, symbols, min_avg_vol, dhan_token, idx,
                   scan_df, results, col, counts, secret, call>>

\* lines 201-210: the workbook, one sheet a horizon, and the return
Save ==
    /\ pc = "save"
    /\ counts' = [h \in HorizonSet |-> Len(results[h])]
    /\ pc' = "done"
    /\ UNCHANGED <<err, firebase_apps, symbols, min_avg_vol, dhan_token, idx,
                   scan_df, results, hi, dfh, col, last_row, top_lists,
                   secret, call>>

Next ==
    \/ Start
    \/ ScanFetch
    \/ ScanScore
    \/ Normalize
    \/ SortHead
    \/ StopRow
    \/ TargetRow
    \/ Report
    \/ Save

Spec == Init /\ [][Next]_vars

(***************************************************************************)
(* get_history, request by request                                         *)
(***************************************************************************)
\* analyze_universe at rest, for the runs of one function alone
PipeIdle ==
    /\ pc = "idle" /\ err = "" /\ symbols = <<>>
    /\ min_avg_vol = MIN_AVG_VOLUME /\ dhan_token = NoToken
    /\ idx = 1 /\ scan_df = None
    /\ results = [h \in HorizonSet |-> <<>>] /\ hi = 1
    /\ dfh = <<>> /\ col = <<>> /\ last_row = NoLast
    /\ top_lists = [h \in HorizonSet |-> <<>>]
    /\ counts = [h \in HorizonSet |-> 0]

pipeVars ==
    <<pc, err, symbols, min_avg_vol, dhan_token, idx, scan_df, results, hi,
      dfh, col, last_row, top_lists, counts>>

InitHistory == PipeIdle /\ firebase_apps = FALSE /\ secret = NoSecret /\ call = NoCall

\* lines 91-93: with a token the primary is asked, without one the fallback
CallStart ==
    /\ call.pc = "idle"
    /\ \E token \in Tokens :
         call' = [call EXCEPT !.token = token,
                              !.pc = IF Truthy(token) THEN "request" ELSE "fallback"]
    /\ UNCHANGED <<pipeVars, firebase_apps, secret>>

\* safe_get_json, lines 23-30 and 32: one pass of the loop, or its end
Request ==
    /\ call.pc = "request"
    /\ IF call.i >= RETRIES
       THEN call' = [call EXCEPT !.got = "return", !.j = "falsy", !.pc = "parse"]
       ELSE \E r \in Responses :
              LET a == Attempt(call.i, r)
              IN  call' = [call EXCEPT
                             !.log = Append(@, r),
                             !.got = IF a.next = "sleep" THEN @ ELSE a.next,
                             !.j   = a.j,
                             !.pc  = IF a.next = "sleep" THEN "sleep" ELSE "parse"]
    /\ UNCHANGED <<pipeVars, firebase_apps, secret>>

\* line 31 and the next turn of the loop
Sleep ==
    /\ call.pc = "sleep"
    /\ call' = [call EXCEPT !.sleeps = @ + 1, !.i = @ + 1, !.pc = "request"]
    /\ UNCHANGED <<pipeVars, firebase_apps, secret>>

\* fetch_dhan_candles after line 41, and lines 94-99 of get_history
Parse ==
    /\ call.pc = "parse"
    /\ LET df == fetch_dhan_candles([next |-> call.got, j |-> call.j])
       IN  call' = [call EXCEPT
                      !.primary    = df.kind,
                      !.primary_df = df,
                      !.result     = IF NotEmpty(df) THEN df ELSE @,
                      !.pc         = IF NotEmpty(df) THEN "done" ELSE "fallback"]
    /\ UNCHANGED <<pipeVars, firebase_apps, secret>>

\* line 101
Fallback ==
    /\ call.pc = "fallback"
    /\ \E yresp \in YfResponses :
         LET df == fetch_yfinance(yresp)
         IN  call' = [call EXCEPT !.fallback = df.kind, !.yresp = yresp,
                                  !.result = df, !.pc = "done"]
    /\ UNCHANGED <<pipeVars, firebase_apps, secret>>

NextHistory ==
    \/ CallStart
    \/ Request
    \/ Sleep
    \/ Parse
    \/ Fallback

\* safe_get_json runs on: neither a request nor the sleep before the next
\* one is put off for ever (requests.get has a timeout, sleep is one second)
SpecHistory ==
    InitHistory /\ [][NextHistory]_vars /\ WF_vars(Request) /\ WF_vars(Sleep)

(***************************************************************************)
(* get_secret                                                              *)
(***************************************************************************)
SecretFields == {"DHAN_TOKEN", "NEWSAPI_KEY"}

InitSecret == PipeIdle /\ firebase_apps = FALSE /\ secret = NoSecret /\ call = NoCall

\* one call of get_secret, lines 58-79
GetSecret ==
    /\ \E field \in SecretFields, env \in EnvValues, sa \in SaFiles, store \in Stores :
         LET got == get_secret(env, firebase_apps, sa, store)
         IN  /\ secret' = [field |-> field, env |-> env, sa |-> sa, store |-> store,
                           was_init |-> firebase_apps, kind |-> got.kind,
                           val |-> got.val, read |-> got.read]
             /\ firebase_apps' = got.apps
    /\ UNCHANGED <<pipeVars, call>>

NextSecret == GetSecret

SpecSecret == InitSecret /\ [][NextSecret]_vars

(***************************************************************************)
(* The post-processing of one pool, lines 183-189, on the pools a scan can *)
(* leave behind                                                            *)
(***************************************************************************)
\* the longest pool of which every filling is tried
MaxShort == 3

\* the largest score of those pools, in quanta
MaxScore == 3

\* the longest pool
MaxPool == 11

\* the scores of a pool: a score is NaN (see C7) or a float
ScoreChoices == {NaN} \cup {Fl(v) : v \in 0..MaxScore}

ShortPools == UNION {[1..n -> ScoreChoices] : n \in 1..MaxShort}

\* long pools: the scores come round with period p, EPS apart
LongPools ==
    {[i \in 1..n |-> Fl(((i - 1) % p) * EPS)] : n \in (MaxShort + 1)..MaxPool, p \in 1..3}

PoolOf(scores) == [i \in 1..Len(scores) |-> [symbol |-> i, score |-> scores[i]]]

InitRank ==
    /\ pc = "norm" /\ err = "" /\ min_avg_vol = MIN_AVG_VOLUME
    /\ dhan_token = NoToken /\ scan_df = None /\ hi = 1
    /\ \E scores \in ShortPools \cup LongPools :
         /\ symbols = [i \in 1..Len(scores) |-> i]
         /\ idx = Len(scores) + 1
         /\ results = [h \in HorizonSet |->
                          IF h = HORIZONS_MONTHS[1] THEN PoolOf(scores) ELSE <<>>]
    /\ dfh = <<>> /\ col = <<>> /\ last_row = NoLast
    /\ top_lists = [h \in HorizonSet |-> <<>>]
    /\ counts = [h \in HorizonSet |-> 0]
    /\ firebase_apps = FALSE /\ secret = NoSecret /\ call = NoCall

NextRank ==
    \/ Normalize
    \/ SortHead

SpecRank == InitRank /\ [][NextRank]_vars

(***************************************************************************)
(* The claims                                                              *)
(***************************************************************************)
\* the pool of the horizon the post-processing is at
Pool == results[HORIZONS_MONTHS[hi]]

AllNaNCloses(rows) == rows # <<>> /\ \A t \in 1..Len(rows) : rows[t].close.nan

\* C1: once the credential lookup has returned, no provider error leaves
\* analyze_universe, in the main scan or in the re-fetch of a retained
\* candidate: the run never ends in an exception of a provider.
C1_RunCompletes == ~(pc = "raised" /\ err = "provider")

Defined(rows) == Valid(Column(rows, "score"))

\* the defined scores of the pool are at least 1e-9 apart
Spread(rows) ==
    /\ Defined(rows) # <<>>
    /\ SeqMax(Defined(rows)) - SeqMin(Defined(rows)) >= EPS

\* the estimate p is a number in [0,1]
InUnit(p) == ~p.nan /\ p.den > 0 /\ 0 <= p.num /\ p.num <= p.den

\* C3, as it holds: in a pool whose defined scores are at least 1e-9 apart,
\* every candidate with a defined score has an estimate in [0,1] that does
\* not decrease with the score, 1 at the largest score and 0 at the least;
\* a candidate whose score is NaN has the estimate NaN.
C3_NormalisedBeyondTolerance ==
    (pc = "sort" /\ Spread(Pool)) =>
        \A i \in 1..Len(Pool) :
            IF Pool[i].score.nan THEN dfh[i].prob_est.nan
            ELSE /\ InUnit(dfh[i].prob_est)
                 /\ Pool[i].score.v = SeqMax(Defined(Pool)) =>
                        dfh[i].prob_est.num = dfh[i].prob_est.den
                 /\ Pool[i].score.v = SeqMin(Defined(Pool)) =>
                        dfh[i].prob_est.num = 0
                 /\ \A j \in 1..Len(Pool) :
                        (~Pool[j].score.nan /\ Pool[i].score.v <= Pool[j].score.v) =>
                            ~FracLess(dfh[j].prob_est, dfh[i].prob_est)

\* a pool of three with an estimate strictly between 0 and 1
C3_Witness ==
    /\ pc = "sort" /\ Spread(Pool) /\ Len(Pool) >= 3
    /\ \E i \in 1..Len(dfh) :
         /\ InUnit(dfh[i].prob_est)
         /\ 0 < dfh[i].prob_est.num /\ dfh[i].prob_est.num < dfh[i].prob_est.den

\* C3 as the specification states it, on the candidates with a defined
\* score: whenever the largest and the least score differ, the estimates
\* are in [0,1], 1 at the largest score and 0 at the least.
C3_AsStated ==
    (pc = "sort" /\ Defined(Pool) # <<>>
       /\ SeqMax(Defined(Pool)) # SeqMin(Defined(Pool))) =>
        \A i \in 1..Len(Pool) :
            ~Pool[i].score.nan =>
                /\ InUnit(dfh[i].prob_est)
                /\ Pool[i].score.v = SeqMax(Defined(Pool)) =>
                       dfh[i].prob_est.num = dfh[i].prob_est.den
                /\ Pool[i].score.v = SeqMin(Defined(Pool)) =>
                       dfh[i].prob_est.num = 0

\* C4: in a pool of one member, or of members with one and the same score,
\* every estimate is exactly 0.5 and lines 184-188 do not divide.
C4_EqualScoresHalf ==
    (/\ pc = "sort"
     /\ \/ Len(Pool) = 1
        \/ \A i, j \in 1..Len(Pool) :
             /\ ~Pool[i].score.nan
             /\ Pool[i].score = Pool[j].score) =>
        /\ \A i \in 1..Len(dfh) : dfh[i].prob_est = Frac(1, 2)
        /\ ~Divides(Pool)

\* row a of a sorted frame may stand before row b: its estimate is not less
InOrder(a, b) ==
    \/ b.prob_est.nan
    \/ ~a.prob_est.nan /\ ~FracLess(a.prob_est, b.prob_est)

\* C5: the frame of a horizon has min(n, 10) rows, in descending order of
\* the estimate, and rows with equal estimates stand in pool order (the
\* symbols are numbered in scan order).
C5_TopTenStable ==
    pc = "stop" =>
        /\ Len(dfh) = IF Len(Pool) <= TOP_N THEN Len(Pool) ELSE TOP_N
        /\ \A a, b \in 1..Len(dfh) :
             a < b =>
                /\ InOrder(dfh[a], dfh[b])
                /\ dfh[a].prob_est = dfh[b].prob_est =>
                       dfh[a].symbol < dfh[b].symbol

\* C6: no pool holds a score whose average volume is undefined or below the
\* min_avg_vol given to analyze_universe.
C6_ConfiguredLiquidityGate ==
    \A h \in HorizonSet :
        \A i \in 1..Len(results[h]) :
            /\ ~results[h][i].avg_vol.nan
            /\ results[h][i].avg_vol.v >= min_avg_vol

\* C7: scoring a series whose closes are all NaN adds nothing to any pool
\* (and so nothing to the counts, which are the lengths of the pools).
C7_AllNaNClosesInsufficient ==
    [][(pc = "scan_score" /\ scan_df # None /\ AllNaNCloses(scan_df.rows))
          => results' = results]_vars

\* get_secret failed to initialise the SDK
InitFailed == ~secret.was_init /\ secret.sa # "ok"

C9_Attempts ==
    /\ Len(call.log) <= RETRIES
    /\ \A k \in 1..(Len(call.log) - 1) : call.log[k] = "fail"
    /\ call.pc = "request" => call.sleeps = Len(call.log)
    /\ call.pc = "sleep" =>
         call.sleeps = Len(call.log) - 1 /\ call.log[Len(call.log)] = "fail"
    /\ call.got # "none" =>
         /\ call.log # <<>>
         /\ call.sleeps = Len(call.log) - 1
         /\ call.got = "return" <=> call.log[Len(call.log)] # "fail"
         /\ call.got = "return" => call.j = call.log[Len(call.log)]
         /\ call.got = "raise" => Len(call.log) = RETRIES

\* C9: a call of safe_get_json makes at most RETRIES attempts, a further
\* one only after a failure and one sleep; it returns the JSON of the first
\* attempt that succeeds and raises when the last one fails; and it ends.
C9_BoundedRetries ==
    /\ []C9_Attempts
    /\ (call.pc = "request") ~> (call.got # "none")

\* both attempts failed, with one sleep between them, and the error is raised
C9_Witness ==
    /\ call.got = "raise" /\ call.log = <<"fail", "fail">> /\ call.sleeps = 1

\* the cell compute_stop owes to `last`
ExpectedStop(l) ==
    IF ~l.some \/ l.close.nan \/ l.atr.nan THEN NaN
    ELSE Fl(l.close.v - (3 * l.atr.v) \div 2)

\* the cell compute_target owes to `last`
ExpectedTarget(l) ==
    IF ~l.some \/ l.close.nan THEN NaN ELSE Fl(3 * l.close.v)

\* C10: the stop-loss of a retained candidate is close - 1.5 ATR and its
\* target 3 close of the last bar of the re-fetched series, each the missing
\* value when an input is undefined; no candidate is dropped and the
\* computation does not fail.
C10_Estimates ==
    /\ (pc = "stop" /\ col # <<>>) => col[Len(col)] = ExpectedStop(last_row)
    /\ (pc = "target" /\ col = <<>>) =>
         dfh[Len(dfh)].stop_loss_est = ExpectedStop(last_row)
    /\ (pc = "target" /\ col # <<>>) => col[Len(col)] = ExpectedTarget(last_row)
    /\ pc = "reason" =>
         /\ dfh[Len(dfh)].target_price_est = ExpectedTarget(last_row)
         /\ Len(dfh) = IF Len(Pool) <= TOP_N THEN Len(Pool) ELSE TOP_N
    /\ ~(pc = "raised" /\ err = "provider" /\ dfh # <<>>)

=============================================================================
